---- MODULE Spec2Model ----
(***************************************************************************)
(* Color Craze (ColorCraze.ino): a Mastermind-like card guessing game for  *)
(* an Arduino with a TCS34725 colour sensor and an RGB matrix.             *)
(*                                                                         *)
(* The model follows the control flow of loop(): startScreen() polls the   *)
(* sensor until a card selects a level, game(level) draws the hidden set   *)
(* with getCorrectSet(), then for each attempt collects a guess card by    *)
(* card (readAndDisplayCards / displayNextCard), scores it                 *)
(* (removeWrongGuesses) and returns on a perfect score or when the         *)
(* attempts are used up; loop() finally shows the win or the lose screen.  *)
(* One step of the model is one poll of the sensor, one call of            *)
(* removeWrongGuesses, or one of the loop exits / returns around them.     *)
(***************************************************************************)
EXTENDS Integers, Sequences, FiniteSets

(***************************************************************************)
(* enum Color {none, red, green, blue}                                     *)
(***************************************************************************)
none == 0
red == 1
green == 2
blue == 3
Color == {none, red, green, blue}

\* Marks an array element that no statement has written yet.  The program
\* never reads such an element (NoUnwrittenRead below), so no value is chosen.
Unwritten == 0 - 1

\* uint16_t arithmetic: unsigned int is 16 bits wide on the Arduino UNO.
UInt16Modulus == 65536

\* if (clearVal > 500)
ClearThreshold == 500

\* while (color == none && counter < 10) / (... counter < 90)
TitleLimit == 10
ChooseLimit == 90

(***************************************************************************)
(* Raw sensor data.  A sample is <<r, g, b, clearVal>>, each a uint16_t.   *)
(* ChannelValues has small values (ties, dominance by one) and large ones  *)
(* whose sum leaves the 16 bit range; ClearValues straddles the threshold. *)
(***************************************************************************)
ChannelValues == {0, 1, 2, 3, 25536, 40000}
ClearValues == {0, 500, 501, 65535}
RawSamples == ChannelValues \X ChannelValues \X ChannelValues \X ClearValues

\* What the sensor delivers while the game is played: nothing in front of it,
\* a red, a green or a blue card, and ambiguous light.
CardSamples ==
    { <<0, 0, 0, 0>>, <<3, 1, 1, 501>>, <<1, 3, 1, 501>>, <<1, 1, 3, 501>>,
      <<2, 2, 2, 65535>> }

\* g + b as the 16 bit target computes it
SumU16(x, y) == (x + y) % UInt16Modulus

\* Color getColor()
getColor(s) ==
    LET r == s[1]
        g == s[2]
        b == s[3]
        clearVal == s[4]
    IN  IF clearVal > ClearThreshold
        THEN IF r > SumU16(g, b) THEN red
             ELSE IF b > g /\ b > r THEN blue
             ELSE IF g > r /\ g > b THEN green
             ELSE none
        ELSE none

(***************************************************************************)
(* getCorrectSet(correctSet, numSlots)                                     *)
(***************************************************************************)
RECURSIVE Pow3(_)
\* int numCombos = pow(3, numSlots)
Pow3(n) == IF n = 0 THEN 1 ELSE 3 * Pow3(n - 1)

\* srand((unsigned)analogRead(A5)): the stream starts anew, no value of it
\* drawn yet.  (AfterSrandMissing: the same without the call of srand)
AfterSrandMissing(valuesDrawn) == valuesDrawn
AfterSrand(valuesDrawn) == 0

\* rand(): one more value of the stream is drawn
AfterRand(valuesDrawn) == valuesDrawn + 1

\* the draws rand() % numCombos can deliver
Draws(numSlots) == 0 .. (Pow3(numSlots) - 1)

\* int digit = (enum Color)((num % 3) + 1)
DigitOf(num) == (num % 3) + 1

\* if (digit == prev) { if (digit != 3) digit++; else digit = 1; }
\* (RepairNoStep: the same without the step, the digit emitted as computed)
RepairNoStep(digit, prevDigit) == digit
\* (RepairTwoSteps: the same with the digit advanced by two)
RepairTwoSteps(digit, prevDigit) ==
    IF digit = prevDigit
    THEN IF digit = 1 THEN 3 ELSE digit - 1
    ELSE digit
Repair(digit, prevDigit) ==
    IF digit = prevDigit
    THEN IF digit # 3 THEN digit + 1 ELSE 1
    ELSE digit

\* num /= numSlots
NextNum(num, numSlots) == num \div numSlots

RECURSIVE DigitLoop(_, _, _, _)
\* the digits the loop computes, before the test against prev:
\* while (index < numSlots) { int digit = (num % 3) + 1; ...
\*                            num /= numSlots; index++; }
DigitLoop(ds, index, num, numSlots) ==
    IF index < numSlots
    THEN DigitLoop(Append(ds, DigitOf(num)), index + 1,
                   NextNum(num, numSlots), numSlots)
    ELSE ds

RECURSIVE CorrectSetLoop(_, _, _, _, _)
\* while (index < numSlots) { ... correctSet[index] = digit; prev = digit;
\*                            num /= numSlots; index++; }
CorrectSetLoop(set, index, num, prevDigit, numSlots) ==
    IF index < numSlots
    THEN LET digit == Repair(DigitOf(num), prevDigit)
         IN  CorrectSetLoop(Append(set, digit), index + 1,
                            NextNum(num, numSlots), digit, numSlots)
    ELSE set

\* the set written for the draw num; int prev = -1 before the loop
getCorrectSet(num, numSlots) == CorrectSetLoop(<<>>, 0, num, 0 - 1, numSlots)

(***************************************************************************)
(* removeWrongGuesses(guessedSet, correctSet, numSlots)                    *)
(***************************************************************************)
\* if (guessedSet[i] != correctSet[i]) guessedCorrectlySet[i] = none;
\* else guessedCorrectlySet[i] = guessedSet[i];
\* (MaskAllWrong: the same with every card blacked out)
MaskAllWrong(guess, correct) == none
MaskOne(guess, correct) == IF guess # correct THEN none ELSE guess

RECURSIVE ScoreLoop(_, _, _, _, _, _)
\* for (int i = 0; i < numSlots; i++) { ... numWrongGuesses++ ... }
\* yields <<numWrongGuesses, guessedCorrectlySet>>
ScoreLoop(i, wrong, mask, guessed, correct, numSlots) ==
    IF i < numSlots
    THEN ScoreLoop(i + 1,
                   IF guessed[i + 1] # correct[i + 1] THEN wrong + 1 ELSE wrong,
                   Append(mask, MaskOne(guessed[i + 1], correct[i + 1])),
                   guessed, correct, numSlots)
    ELSE <<wrong, mask>>

\* guessedSet after the call: the loop writes guessedCorrectlySet, its own
\* array, and only reads guessedSet and correctSet.
\* (GuessAfterScoreMasked: the same with none written into guessedSet itself)
GuessAfterScoreMasked(guessed, mask) == mask
GuessAfterScore(guessed, mask) == guessed

\* (removeWrongGuessesOffByOne: the same with slot 0 never counted as wrong)
removeWrongGuessesOffByOne(guessed, correct, numSlots) ==
    ScoreLoop(1, 0, <<MaskOne(guessed[1], correct[1])>>, guessed, correct, numSlots)
removeWrongGuesses(guessed, correct, numSlots) ==
    ScoreLoop(0, 0, <<>>, guessed, correct, numSlots)

(***************************************************************************)
(* startScreen(): the level a card selects                                 *)
(***************************************************************************)
\* What a function that runs off its end without a return statement hands
\* to its caller: any int.  0 and 4 stand for the values that are no level.
NoReturnValue == {0, 1, 2, 3, 4}

\* if (color == green) return 1; if (color == blue) return 2;
\* if (color == red) return 3;  (and no return after that)
\* (startScreenReturnsSwapped: the same with green and blue exchanged)
startScreenReturnsSwapped(c) ==
    IF c = blue THEN {1}
    ELSE IF c = green THEN {2}
    ELSE IF c = red THEN {3}
    ELSE NoReturnValue
startScreenReturns(c) ==
    IF c = green THEN {1}
    ELSE IF c = blue THEN {2}
    ELSE IF c = red THEN {3}
    ELSE NoReturnValue

\* if (color != none) { startSignal = true; }
\* (SignalAlways: the same without the test of color)
SignalAlways(c, signal) == TRUE
Signal(c, signal) == IF c # none THEN TRUE ELSE signal

\* A loop the sensor never ends: every sample repeats the poll.
KeepPollingAlways(c, p) == TRUE

(***************************************************************************)
(* displayNextCard / readAndDisplayCards                                   *)
(***************************************************************************)
\* while (color == prev || color == none)
KeepPolling(c, p) == c = p \/ c = none

\* Color prev = displayNextCard(prev, i, numSlots);
\* The prev declared in the loop body hides the prev of the function and is
\* in scope in its own initializer: the argument is the new, uninitialized
\* variable.  Its value is whatever the register or stack slot holds: any
\* Color (a bit pattern that is no Color behaves like none in KeepPolling).
PrevArgument == Color

(***************************************************************************)
(* game(level)                                                             *)
(***************************************************************************)
\* int numSlots = level + 2;  int numGuesses = level + 2;
NumSlotsOf(lv) == lv + 2
NumGuessesOf(lv) == lv + 2

\* for (int i = 0; i < numSlots; i++)   (numGuesses is never used)
\* (AttemptAllowedOneMore: the same with i <= numSlots)
AttemptAllowedOneMore(att, slots) == att <= slots
AttemptAllowed(att, slots) == att < slots

\* if (numWrongGuesses == 0) { return true; }
\* (IsWinNever: the same without the early return)
IsWinNever(wrong) == FALSE
IsWin(wrong) == wrong = 0

(***************************************************************************)
(* State                                                                   *)
(***************************************************************************)
VARIABLES
    pc,                  \* where loop() is: "title", "choose" (the two polling
                         \* loops of startScreen), "game" (about to call game),
                         \* "read" (polling in displayNextCard), "score" (about
                         \* to call removeWrongGuesses), "scored" (it returned),
                         \* "report" (game returned)
    color,               \* startScreen: Color color
    counter,             \* startScreen: int counter
    startSignal,         \* startScreen: bool startSignal
    level,               \* loop: int level
    outcome,             \* loop: bool outcome
    numSlots,            \* game: int numSlots
    correctSet,          \* game: Color correctSet[numSlots]
    guessedSet,          \* game: Color guessedSet[numSlots]
    attempt,             \* game: the i of its for loop
    slot,                \* readAndDisplayCards: the i of its for loop
    prev,                \* displayNextCard: parameter prev
    numWrongGuesses,     \* game: int numWrongGuesses (the value returned)
    guessedCorrectlySet, \* removeWrongGuesses: the cards it left on the matrix
    shown,               \* the outcome screen drawn: "win", "lose" or "none"
    collected,           \* calls of readAndDisplayCards completed in this game
    scored,              \* calls of removeWrongGuesses completed in this game
    reports,             \* outcome screens drawn since the level was chosen
    raw,                 \* getColor: <<r, g, b, clearVal>> of the last sample
    classified,          \* getColor: the Color returned for raw
    drawn,               \* getCorrectSet: int num as drawn, rand() % numCombos
    digits,              \* getCorrectSet: the value of digit computed per slot
    seeded,              \* srand has been called since the process started
    sinceSeed,           \* values rand() has delivered since the last srand
    accepted             \* samples displayNextCard has accepted in this game

vars == <<pc, color, counter, startSignal, level, outcome, numSlots, correctSet,
          guessedSet, attempt, slot, prev, numWrongGuesses,
          guessedCorrectlySet, shown, collected, scored, reports, raw,
          classified, drawn, digits, seeded, sinceSeed, accepted>>

startVars == <<color, counter, startSignal>>
loopVars == <<level, outcome, shown, reports>>
gameVars == <<numSlots, correctSet, guessedSet, attempt, numWrongGuesses,
              guessedCorrectlySet, collected, scored, accepted>>
cardVars == <<slot, prev>>
sensorVars == <<raw, classified>>
drawVars == <<drawn, digits>>
randVars == <<seeded, sinceSeed>>

Init ==
    /\ pc = "title"
    /\ color = none
    /\ counter = 0
    /\ startSignal = FALSE
    /\ level = 0
    /\ outcome = FALSE
    /\ numSlots = 0
    /\ correctSet = <<>>
    /\ guessedSet = <<>>
    /\ attempt = 0
    /\ slot = 0
    /\ prev = none
    /\ numWrongGuesses = 0
    /\ guessedCorrectlySet = <<>>
    /\ shown = "none"
    /\ collected = 0
    /\ scored = 0
    /\ reports = 0
    /\ raw = <<0, 0, 0, 0>>
    /\ classified = none
    /\ drawn = 0
    /\ digits = <<>>
    /\ seeded = FALSE
    /\ sinceSeed = 0
    /\ accepted = 0

(***************************************************************************)
(* startScreen()                                                           *)
(***************************************************************************)
\* while (color == none && counter < 10) { color = getColor(); titleScreen();
\*                                         counter++; }
TitlePoll ==
    /\ pc = "title"
    /\ color = none /\ counter < TitleLimit
    /\ \E s \in CardSamples : color' = getColor(s)
    /\ counter' = counter + 1
    /\ UNCHANGED <<pc, startSignal, loopVars, gameVars, cardVars, sensorVars,
                   drawVars, randVars>>

\* the first polling loop ends; if (color != none) startSignal = true;
TitleExit ==
    /\ pc = "title"
    /\ ~(color = none /\ counter < TitleLimit)
    /\ startSignal' = Signal(color, startSignal)
    /\ pc' = "choose"
    /\ UNCHANGED <<color, counter, loopVars, gameVars, cardVars, sensorVars,
                   drawVars, randVars>>

\* while (color == none && counter < 90) { color = getColor(); levelChoose();
\*                                         counter++; }
ChoosePoll ==
    /\ pc = "choose"
    /\ color = none /\ counter < ChooseLimit
    /\ \E s \in CardSamples : color' = getColor(s)
    /\ counter' = counter + 1
    /\ UNCHANGED <<pc, startSignal, loopVars, gameVars, cardVars, sensorVars,
                   drawVars, randVars>>

\* the second polling loop ends; if (color != none) startSignal = true;
\* then while (startSignal == false) starts over with counter = 0, or the
\* function returns the level and loop() goes on to call game(level).  The
\* counter ends with the return; color is kept as the card that chose.
ChooseExit ==
    /\ pc = "choose"
    /\ ~(color = none /\ counter < ChooseLimit)
    /\ startSignal' = Signal(color, startSignal)
    /\ IF startSignal' = FALSE
       THEN /\ counter' = 0
            /\ pc' = "title"
            /\ UNCHANGED loopVars
       ELSE /\ \E lv \in startScreenReturns(color) : level' = lv
            /\ pc' = "game"
            /\ outcome' = FALSE
            /\ shown' = "none"
            /\ reports' = 0
            /\ counter' = 0
    /\ UNCHANGED <<color, gameVars, cardVars, sensorVars,
                   drawVars, randVars>>

(***************************************************************************)
(* game(level)                                                             *)
(***************************************************************************)
\* game is entered: numSlots, getCorrectSet(correctSet, numSlots), and the
\* first call of readAndDisplayCards reaches displayNextCard for slot 0
GameStart ==
    /\ pc = "game"
    /\ numSlots' = NumSlotsOf(level)
    /\ seeded' = TRUE
    /\ sinceSeed' = AfterRand(AfterSrand(sinceSeed))
    /\ \E num \in Draws(NumSlotsOf(level)) :
           correctSet' = getCorrectSet(num, NumSlotsOf(level))
    /\ accepted' = 0
    /\ guessedSet' = [j \in 1 .. NumSlotsOf(level) |-> Unwritten]
    /\ attempt' = 0
    /\ numWrongGuesses' = 0
    /\ guessedCorrectlySet' = <<>>
    /\ collected' = 0
    /\ scored' = 0
    /\ slot' = 0
    /\ \E p \in PrevArgument : prev' = p
    /\ pc' = "read"
    /\ UNCHANGED <<startVars, loopVars, sensorVars, drawVars>>

\* one pass of the loop of displayNextCard: color = getColor().  The loop is
\* entered with color == prev and is left on the first c that ends it, so
\* while pc = "read" its condition holds and color need not be kept.  When the
\* loop ends the card is drawn and returned, readAndDisplayCards stores it in
\* guessedSet[i] and calls displayNextCard for the next slot, or returns
ReadCard ==
    /\ pc = "read"
    /\ \E s \in CardSamples :
         LET c == getColor(s) IN
           IF KeepPolling(c, prev)
           THEN UNCHANGED <<pc, slot, prev, guessedSet, collected, accepted>>
           ELSE /\ guessedSet' = [guessedSet EXCEPT ![slot + 1] = c]
                /\ accepted' = accepted + 1
                /\ IF slot + 1 < numSlots
                   THEN /\ slot' = slot + 1
                        /\ \E p \in PrevArgument : prev' = p
                        /\ UNCHANGED <<pc, collected>>
                   ELSE /\ slot' = slot + 1
                        /\ collected' = collected + 1
                        /\ pc' = "score"
                        /\ UNCHANGED prev
    /\ UNCHANGED <<startVars, loopVars, numSlots, correctSet, attempt,
                   numWrongGuesses, guessedCorrectlySet, scored, sensorVars,
                   drawVars, randVars>>

\* int numWrongGuesses = removeWrongGuesses(guessedSet, correctSet, numSlots);
Score ==
    /\ pc = "score"
    /\ LET res == removeWrongGuesses(guessedSet, correctSet, numSlots) IN
         /\ numWrongGuesses' = res[1]
         /\ guessedCorrectlySet' = res[2]
         /\ guessedSet' = GuessAfterScore(guessedSet, res[2])
    /\ scored' = scored + 1
    /\ pc' = "scored"
    /\ UNCHANGED <<startVars, loopVars, numSlots, correctSet, attempt,
                   collected, accepted, cardVars, sensorVars, drawVars,
                   randVars>>

\* if (numWrongGuesses == 0) return true;  else i++ and, while i < numSlots,
\* the next readAndDisplayCards; else return false.  outcome = game(level)
\* The locals of game and of the functions it called end with the return.
GameReturns(won) ==
    /\ outcome' = won
    /\ pc' = "report"
    /\ numSlots' = 0
    /\ correctSet' = <<>>
    /\ guessedSet' = <<>>
    /\ attempt' = 0
    /\ slot' = 0
    /\ prev' = none
    /\ numWrongGuesses' = 0
    /\ guessedCorrectlySet' = <<>>

Decide ==
    /\ pc = "scored"
    /\ IF IsWin(numWrongGuesses)
       THEN GameReturns(TRUE)
       ELSE IF AttemptAllowed(attempt + 1, numSlots)
            THEN /\ attempt' = attempt + 1
                 /\ slot' = 0
                 /\ \E p \in PrevArgument : prev' = p
                 /\ pc' = "read"
                 /\ numWrongGuesses' = 0
                 /\ guessedCorrectlySet' = <<>>
                 /\ UNCHANGED <<outcome, numSlots, correctSet, guessedSet>>
            ELSE GameReturns(FALSE)
    /\ UNCHANGED <<startVars, level, shown, reports, collected, scored,
                   accepted, sensorVars, drawVars, randVars>>

(***************************************************************************)
(* loop(): the outcome screen, then the next startScreen()                 *)
(***************************************************************************)
\* if (outcome) winScreen(); else loseScreen();
\* (ScreenForAlwaysWin: the same without the test of outcome)
ScreenForAlwaysWin(won) == "win"
ScreenFor(won) == IF won THEN "win" ELSE "lose"

Report ==
    /\ pc = "report"
    /\ shown' = ScreenFor(outcome)
    /\ reports' = reports + 1
    /\ color' = none
    /\ counter' = 0
    /\ startSignal' = FALSE
    /\ pc' = "title"
    /\ UNCHANGED <<level, outcome, gameVars, cardVars, sensorVars,
                   drawVars, randVars>>

Next ==
    \/ TitlePoll
    \/ TitleExit
    \/ ChoosePoll
    \/ ChooseExit
    \/ GameStart
    \/ ReadCard
    \/ Score
    \/ Decide
    \/ Report

Spec == Init /\ [][Next]_vars

\* The pass of displayNextCard's loop that ends it: the sample is a card and
\* differs from prev.
CardAccepted == ReadCard /\ accepted' = accepted + 1

\* The sensor eventually delivers, at every slot, a sample that ends the
\* loop of displayNextCard; the calls and returns between the polls are the
\* one thread of control going on.
FairSpec ==
    /\ Spec
    /\ WF_vars(CardAccepted)
    /\ WF_vars(Score)
    /\ WF_vars(Decide)

(***************************************************************************)
(* getColor() on its own: every raw sample, classified                     *)
(***************************************************************************)
Sample ==
    /\ \E s \in RawSamples :
         /\ raw' = s
         /\ classified' = getColor(s)
    /\ UNCHANGED <<pc, startVars, loopVars, gameVars, cardVars, drawVars,
                   randVars>>

SensorNext == Sample

SensorSpec == Init /\ [][SensorNext]_vars

(***************************************************************************)
(* removeWrongGuesses on its own: every guess against every target of the  *)
(* three lengths the levels use, none never being an element of either     *)
(***************************************************************************)
Cards == {red, green, blue}

ScoreInit ==
    /\ pc = "score"
    /\ color = none
    /\ counter = 0
    /\ startSignal = FALSE
    /\ level \in {1, 2, 3}
    /\ outcome = FALSE
    /\ numSlots = NumSlotsOf(level)
    /\ correctSet \in [1 .. numSlots -> Cards]
    /\ guessedSet \in [1 .. numSlots -> Cards]
    /\ attempt = 0
    /\ slot = numSlots
    /\ prev = none
    /\ numWrongGuesses = 0
    /\ guessedCorrectlySet = <<>>
    /\ shown = "none"
    /\ collected = 1
    /\ scored = 0
    /\ reports = 0
    /\ raw = <<0, 0, 0, 0>>
    /\ classified = none
    /\ drawn = 0
    /\ digits = <<>>
    /\ seeded = FALSE
    /\ sinceSeed = 0
    /\ accepted = 0

ScoreNext == Score

ScoreSpec == ScoreInit /\ [][ScoreNext]_vars

(***************************************************************************)
(* getCorrectSet on its own: every level and every draw, the draw and the  *)
(* digits computed from it kept beside the set written                    *)
(***************************************************************************)
GenInit ==
    /\ pc = "game"
    /\ level \in {1, 2, 3}
    /\ color \in {c \in Cards : level \in startScreenReturns(c)}
    /\ counter = 0
    /\ startSignal = TRUE
    /\ outcome = FALSE
    /\ numSlots = 0
    /\ correctSet = <<>>
    /\ guessedSet = <<>>
    /\ attempt = 0
    /\ slot = 0
    /\ prev = none
    /\ numWrongGuesses = 0
    /\ guessedCorrectlySet = <<>>
    /\ shown = "none"
    /\ collected = 0
    /\ scored = 0
    /\ reports = 0
    /\ raw = <<0, 0, 0, 0>>
    /\ classified = none
    /\ drawn = 0
    /\ digits = <<>>
    /\ seeded = FALSE
    /\ sinceSeed = 0
    /\ accepted = 0

\* getCorrectSet(correctSet, numSlots), as called by game
Generate ==
    /\ pc = "game"
    /\ numSlots' = NumSlotsOf(level)
    /\ seeded' = TRUE
    /\ sinceSeed' = AfterRand(AfterSrand(sinceSeed))
    /\ \E num \in Draws(NumSlotsOf(level)) :
          /\ drawn' = num
          /\ digits' = DigitLoop(<<>>, 0, num, NumSlotsOf(level))
          /\ correctSet' = getCorrectSet(num, NumSlotsOf(level))
    /\ pc' = "generated"
    /\ UNCHANGED <<startVars, loopVars, guessedSet, attempt, numWrongGuesses,
                   guessedCorrectlySet, collected, scored, accepted, cardVars,
                   sensorVars>>

GenNext == Generate

GenSpec == GenInit /\ [][GenNext]_vars

(***************************************************************************)
(* Properties                                                              *)
(***************************************************************************)
InGame == {"read", "score", "scored"}

\* removeWrongGuesses never reads an element of guessedSet that the current
\* game has not written.
NoUnwrittenRead ==
    pc = "score" => \A j \in 1 .. numSlots : guessedSet[j] # Unwritten

\* C1: as soon as a scored guess equals the target at every position, game
\* returns true at once: the step after that scoring is the return, and it
\* collects and scores nothing more, whatever attempts remain.
C1_WinReturnsAtOnce ==
    [][(pc = "scored" /\ guessedSet = correctSet)
         => /\ pc' = "report"
            /\ outcome' = TRUE
            /\ collected' = collected
            /\ scored' = scored]_vars

\* a game won on an attempt that is not the last one
C1_Witness ==
    /\ pc = "report"
    /\ outcome = TRUE
    /\ scored = collected
    /\ scored < level + 2

\* C2: numSlots is level + 2; a game never has more than level + 2 attempts,
\* and it returns false only after exactly level + 2 guesses were collected
\* and exactly level + 2 were scored.
C2_LoseAfterAllAttempts ==
    /\ pc \in InGame => /\ level \in {1, 2, 3}
                        /\ numSlots = level + 2
                        /\ collected <= level + 2
                        /\ scored <= level + 2
    /\ (pc = "report" /\ outcome = FALSE) => /\ collected = level + 2
                                             /\ scored = level + 2

\* a game lost
C2_Witness ==
    /\ pc = "report"
    /\ outcome = FALSE
    /\ scored = level + 2

\* C3: every collected guess has only cards (no none), and no card equals
\* the card accepted at the slot before it.
C3_NoAdjacentEqualGuess ==
    pc = "score" =>
        \A j \in 1 .. numSlots :
            /\ guessedSet[j] \in Cards
            /\ j > 1 => guessedSet[j] # guessedSet[j - 1]

\* C4: getCorrectSet writes exactly numSlots elements, numSlots being 3, 4 or
\* 5, each of them red, green or blue, and no two adjacent ones equal.
C4_CorrectSetValid ==
    pc \in InGame =>
        /\ numSlots \in {3, 4, 5}
        /\ Len(correctSet) = numSlots
        /\ \A j \in 1 .. numSlots :
              /\ correctSet[j] \in Cards
              /\ j > 1 => correctSet[j] # correctSet[j - 1]

\* the draw 0, whose digits are all equal and are repaired at every second slot
C4_Witness ==
    /\ pc = "read"
    /\ numSlots = 5
    /\ correctSet = <<red, green, red, green, red>>

\* C5: the right-guess count, numSlots minus the wrong count returned, is the
\* number of positions where guess and target agree; the masked sequence has
\* the guess where they agree and none exactly where they disagree.
C5_ScoreIsPositional ==
    pc = "scored" =>
        LET agree == {j \in 1 .. numSlots : guessedSet[j] = correctSet[j]} IN
          /\ numSlots - numWrongGuesses = Cardinality(agree)
          /\ Len(guessedCorrectlySet) = numSlots
          /\ \A j \in 1 .. numSlots :
                /\ j \in agree => guessedCorrectlySet[j] = guessedSet[j]
                /\ j \notin agree <=> guessedCorrectlySet[j] = none

\* a scored guess with a right card, a wrong card, and a card of the right
\* colour in a wrong position
C5_Witness ==
    /\ pc = "scored"
    /\ numWrongGuesses > 0
    /\ numWrongGuesses < numSlots
    /\ \E j, k \in 1 .. numSlots :
          /\ j # k
          /\ guessedSet[j] # correctSet[j]
          /\ guessedSet[j] = correctSet[k]
          /\ guessedCorrectlySet[j] = none

\* C6, as claimed: red selects level 3, blue level 1, green level 2.
C6_AsClaimed ==
    pc \in InGame \cup {"game"} =>
        /\ color = red => level = 3
        /\ color = blue => level = 1
        /\ color = green => level = 2

\* C6, amended: red selects level 3 (Hard), green level 1 (Easy) and blue
\* level 2 (Medium), as the legend of levelChoose shows them.
C6_LevelOfCard ==
    pc \in InGame \cup {"game"} =>
        /\ color = red => level = 3
        /\ color = green => level = 1
        /\ color = blue => level = 2

\* a blue card has chosen the level
C6_Witness ==
    /\ pc = "game"
    /\ color = blue
    /\ level = 2

\* C7: startScreen returns only after a card was read (color is not none),
\* and game is only ever called with a level in {1, 2, 3}.
C7_LevelOnlyFromCard ==
    pc \in InGame \cup {"game", "report"} =>
        /\ color \in Cards
        /\ startSignal = TRUE
        /\ level \in {1, 2, 3}

\* startScreen has returned and game is about to be called
C7_Witness ==
    /\ pc = "game"
    /\ color = red
    /\ level = 3

\* C8: getColor returns none when clearVal is not above 500; otherwise red
\* if r > g + b; otherwise blue if b > g and b > r; otherwise green if g > r
\* and g > b; otherwise none.  g + b is the sum of the two numbers.
C8_Priority ==
    LET r == raw[1]
        g == raw[2]
        b == raw[3]
        clearVal == raw[4]
    IN  classified =
          IF clearVal <= 500 THEN none
          ELSE IF r > g + b THEN red
          ELSE IF b > g /\ b > r THEN blue
          ELSE IF g > r /\ g > b THEN green
          ELSE none

\* C9: a sequence scored against itself has no wrong guess, a right count of
\* numSlots, and is its own masked sequence.
C9_SelfScore ==
    (pc = "scored" /\ guessedSet = correctSet) =>
        /\ numWrongGuesses = 0
        /\ numSlots - numWrongGuesses = Len(guessedSet)
        /\ guessedCorrectlySet = guessedSet

\* a sequence of five cards scored against itself
C9_Witness ==
    /\ pc = "scored"
    /\ numSlots = 5
    /\ guessedSet = correctSet

\* C10: in every play-through the outcome screen is drawn exactly once, after
\* game has returned, the win screen if and only if game returned true; and
\* from then to the next choice of a level no guess is collected or scored.
C10_ReportedOnce ==
    /\ [](/\ reports \in {0, 1}
          /\ pc \in InGame \cup {"game", "report"}
                => (reports = 0 /\ shown = "none")
          /\ reports = 1
                => /\ pc \in {"title", "choose"}
                   /\ shown = (IF outcome THEN "win" ELSE "lose"))
    /\ [][/\ pc = "report" => reports' = 1
          /\ pc \in {"title", "choose"}
                => (collected' = collected /\ scored' = scored)
          /\ reports' = 1 => (reports = 1 \/ pc = "report")]_vars

\* a game was won and its screen shown; the next level is not chosen yet
C10_Witness ==
    /\ pc \in {"title", "choose"}
    /\ reports = 1
    /\ outcome = TRUE
    /\ shown = "win"

\* C11: the digit computed for position i, before the test against the
\* previous symbol, is the i-th base-3 digit of the draw, least significant
\* first, floor(num / 3^i) mod 3, mapped to the symbol digit + 1.
C11_Base3Digits ==
    pc = "generated" =>
        /\ Len(digits) = numSlots
        /\ \A i \in 0 .. numSlots - 1 :
              digits[i + 1] = ((drawn \div Pow3(i)) % 3) + 1

\* the sets of n cards with no two adjacent ones equal
ValidSets(n) ==
    {s \in [1 .. n -> Cards] : \A j \in 2 .. n : s[j] # s[j - 1]}

\* C12: every sequence of numSlots cards with no two adjacent ones equal is
\* the set getCorrectSet writes for some draw in [0, 3^numSlots).
C12_EveryValidSetDrawn ==
    pc = "generated" =>
        \A s \in ValidSets(numSlots) :
            \E num \in Draws(numSlots) : getCorrectSet(num, numSlots) = s

\* C13: the first symbol emitted is the digit computed; a later digit that
\* differs from the symbol emitted before it is emitted unchanged, and one
\* that equals it is emitted advanced by one step of 1 -> 2 -> 3 -> 1.
C13_RepairByOneStep ==
    pc = "generated" =>
        /\ Len(correctSet) = numSlots
        /\ correctSet[1] = digits[1]
        /\ \A j \in 2 .. numSlots :
              correctSet[j] = IF digits[j] # correctSet[j - 1] THEN digits[j]
                              ELSE IF digits[j] = 1 THEN 2
                              ELSE IF digits[j] = 2 THEN 3
                              ELSE 1

\* the draw 26 at three slots: digits 3, 3, 3, the second advanced to 1 and
\* the third, which differs from that 1, emitted as computed
C13_Witness ==
    /\ pc = "generated"
    /\ digits = <<blue, blue, blue>>
    /\ correctSet = <<blue, red, blue>>

\* C14, as claimed: the random source is seeded when the process starts and
\* generating a target does not seed it again, so each target is drawn with
\* the next value of the one stream.
C14_AsClaimed ==
    /\ [](seeded = TRUE)
    /\ [][pc = "game" => sinceSeed' = sinceSeed + 1]_vars

\* C14, amended: the random source is not seeded when the process starts;
\* every generation of a target seeds it anew and then draws one value, so
\* every game draws the first value after a fresh seed; no other step seeds
\* or draws.
C14_SeededPerTarget ==
    /\ [](/\ level = 0 => (seeded = FALSE /\ sinceSeed = 0)
          /\ seeded = TRUE => sinceSeed = 1)
    /\ [][/\ pc = "game" => (seeded' = TRUE /\ sinceSeed' = 1)
          /\ pc # "game" => UNCHANGED <<seeded, sinceSeed>>]_vars

\* the target of a second game is about to be generated: the source was
\* seeded, and one value drawn, for the game before
C14_Witness ==
    /\ pc = "game"
    /\ seeded = TRUE
    /\ sinceSeed = 1
    /\ reports = 0

\* C15: the target is written once per game, by the step that enters it and
\* before any guess is collected; no poll, no stored card and no scoring
\* changes an element of correctSet, and scoring leaves guessedSet as it was.
C15_TargetFixed ==
    [][/\ (pc \in InGame /\ pc' \in InGame) => correctSet' = correctSet
       /\ pc = "score" => (guessedSet' = guessedSet /\ correctSet' = correctSet)
       /\ pc = "game" => (collected' = 0 /\ accepted' = 0)
       /\ correctSet' # correctSet => (pc = "game" \/ pc' = "report")]_vars

\* C16: displayNextCard polls without a timeout.  With a sensor that
\* eventually delivers an accepted sample at every slot, every game returns
\* (win or lose), after at most (level + 2) * (level + 2) accepted samples,
\* and it returns only with every slot of every scored guess accepted; and
\* wherever a slot is being polled, there is a sample that leaves the game
\* polling the same slot, so without that sensor it can poll forever.
C16_ReturnsIfCardsArrive ==
    /\ (pc \in InGame) ~> (pc = "report")
    /\ [](/\ pc \in InGame => accepted <= (level + 2) * (level + 2)
          /\ pc \in InGame => accepted = attempt * numSlots + slot
          /\ pc = "report" => /\ scored >= 1
                              /\ accepted = scored * (level + 2)
                              /\ accepted <= (level + 2) * (level + 2)
          /\ pc = "read" =>
                \E s \in CardSamples : KeepPolling(getColor(s), prev))

\* a game lost with the most samples a game accepts: 25 at level 3
C16_Witness ==
    /\ pc = "report"
    /\ outcome = FALSE
    /\ level = 3
    /\ accepted = 25

\* C17: getColor answers red only for a sample whose r exceeds the true sum
\* of its g and b, whatever the width of the channels.
C17_RedOnlyAboveSum ==
    classified = red => raw[1] > raw[2] + raw[3]

\* C18: every game can be won on every attempt: wherever a slot is polled
\* and the slots before it hold the target's cards, some sample is the
\* target's card of this slot and ends displayNextCard's loop.
C18_TargetCanBeEntered ==
    (/\ pc = "read"
     /\ \A j \in 1 .. slot : guessedSet[j] = correctSet[j])
        => \E s \in CardSamples :
               /\ getColor(s) = correctSet[slot + 1]
               /\ ~KeepPolling(getColor(s), prev)

\* C19: every scored guess was written whole in its own attempt (numSlots
\* cards accepted in each attempt up to it, the last slot passed), and each
\* attempt starts with prev = none, so that slot 0 accepts every card.
C19_FreshGuess ==
    /\ pc = "score" => /\ slot = numSlots
                       /\ accepted = (attempt + 1) * numSlots
                       /\ \A j \in 1 .. numSlots : guessedSet[j] \in Cards
    /\ (pc = "read" /\ slot = 0) =>
          /\ accepted = attempt * numSlots
          /\ prev = none
          /\ \A c \in Cards : ~KeepPolling(c, prev)

\* the second guess of a game has been scored, against the target of the first
C15_Witness ==
    /\ pc = "scored"
    /\ scored = 2
    /\ numWrongGuesses > 0
    /\ Len(correctSet) = numSlots

====
